---- MODULE Spec2Model ----
(***************************************************************************)
(* pgoptionfiles: a controller (tracer) forks a subordinate (tracee),      *)
(* drives it with ptrace from one syscall stop to the next, copies the     *)
(* path argument of every file-access syscall out of the tracee's memory   *)
(* and collects the paths that contain "my.cnf".                           *)
(*                                                                         *)
(* A C string is a sequence of one-character strings; NUL is the byte 0.   *)
(* The tracee's memory is a sequence of bytes: address a holds mem[a],     *)
(* address 0 is the null pointer, addresses past Len(mem) are unmapped.    *)
(***************************************************************************)
EXTENDS Integers, Sequences, FiniteSets, TLC

\* ------------------------------------------------------------ bounds

\* PATH_MAX of <limits.h>, scaled down so that an over-long path fits a state.
PATH_MAX == 16
\* PGOPTIONFILES_MAX_FILE_NAMES_LIST_SIZE of pgoptionfiles.h, scaled down.
PGOPTIONFILES_MAX_FILE_NAMES_LIST_SIZE == 19
\* sizeof(error_list), 4096 in the source: here it holds "(pg)" and every
\* text of the program behind it, and not a path of PATH_MAX - 2 bytes.
ERROR_LIST_SIZE == 18
\* Syscalls the library code of the tracee issues in one session.
MaxCalls == 2
\* Events from outside the two processes in one session: a signal that
\* reaches the tracee, a kill of the tracee, a failing waitpid().
MaxFaults == 1
\* The delay at which the polling of waitpid() gives up: 4096000 in the
\* source, scaled down (the delays are 125, 250, 500, ...).
USLEEP_LIMIT == 1000

\* ------------------------------------------------- program constants

NUL == "NUL"
PGOPTIONFILES_DELIMITER == "\n"

SYSCALL_OPEN == 2
SYSCALL_STAT == 4
SYSCALL_LSTAT == 6
SYSCALL_ACCESS == 21
SYSCALL_OPENAT == 257
\* Not monitored: fstat(2) ("There's no checking for fstat"), and
\* exit_group(2) that exit() ends with.
SYSCALL_FSTAT == 5
SYSCALL_EXIT_GROUP == 231
\* orig_rax of a stop that is not a syscall stop.
NO_SYSCALL == -1

\* The first delay of the polling of waitpid().
USLEEP_FIRST == 125

\* sizeof(size_t), the word PTRACE_PEEKDATA returns (x86_64).
WordSize == 8

SIGTRAP == 5
SIGABRT == 6
SIGKILL == 9
SIGTERM == 15
SIGSTOP == 19
SIGWINCH == 28

EXIT_SUCCESS == 0
EXIT_FAILURE == 1

\* What main() returns: after a failed fork(), and the retcode of
\* pgoptionfiles_tracer() after a failed PTRACE_SYSCALL, a timeout, a failed
\* waitpid(), an unexpected first stop and an error text of the tracee.
RetFork == -1
RetResume == -1
RetTimeout == -1
RetWaitFailed == -2
RetWaitStatus == -3
RetErrorSignal == -6
\* What exit() is given after the usage message.
ExitUsage == 1

\* The texts the source passes to strncmp() and strstr().
ErrorMarker == <<"E","r","r","o","r",":"," ">>
TargetName == <<"m","y",".","c","n","f">>
\* error_list as main() initialises it: "(pgoptionfiles)", shortened.
ErrorListInit == <<"(","p","g",")">>
\* The texts the tracer appends to error_list, shortened after the marker.
MsgTimeout == ErrorMarker \o <<"t","o">>
MsgWaitFailed == ErrorMarker \o <<"w","f">>
MsgWaitStatus == ErrorMarker \o <<"w","s">>
\* The texts tracee_error() is called with, shortened after the marker.
MsgRaise == ErrorMarker \o <<"r">>
MsgDlopen == ErrorMarker \o <<"d">>
MsgDlsymInit == ErrorMarker \o <<"1">>
MsgDlsymOptions == ErrorMarker \o <<"2">>
MsgDlsymConnect == ErrorMarker \o <<"3">>
MsgMysqlInit == ErrorMarker \o <<"i">>
MsgMysqlOptions == ErrorMarker \o <<"o">>
MsgMysqlConnect == ErrorMarker \o <<"c">>

\* --------------------------------------- <sys/wait.h> status words

W_EXITCODE(ret, sig) == ret * 256 + sig
W_STOPCODE(sig) == sig * 256 + 127
WIFEXITED(st) == (st % 128) = 0
WIFSTOPPED(st) == (st % 256) = 127
WSTOPSIG(st) == (st \div 256) % 256

\* The exit status a parent sees for main() returning `code`.
ExitStatus(code) == code % 256
\* The same for a process that a signal ended, as the shell gives it.
ExitSignaled(sig) == 128 + sig

\* --------------------------------------------- <string.h> on C strings

Min(a, b) == IF a < b THEN a ELSE b

\* strlen() of a buffer: the bytes before the first NUL.
strlen(buf) ==
  IF \E i \in 1..Len(buf) : buf[i] = NUL
  THEN (CHOOSE i \in 1..Len(buf) :
          buf[i] = NUL /\ \A j \in 1..(i - 1) : buf[j] # NUL) - 1
  ELSE Len(buf)

\* The C string a buffer holds.
CStr(buf) == SubSeq(buf, 1, strlen(buf))

\* strstr(haystack, needle) != NULL
strstr(haystack, needle) ==
  \E i \in 0..(Len(haystack) - Len(needle)) :
    SubSeq(haystack, i + 1, i + Len(needle)) = needle

\* strncmp(s, prefix, sizeof(prefix) - 1) == 0
strncmp_eq(s, prefix) ==
  SubSeq(s, 1, Min(Len(s), Len(prefix))) = prefix

strcat(dest, src) == dest \o src

\* -------------------------------------------- pgoptionfiles_copy_from_tracee

\* PTRACE_PEEKDATA at addr: errno stays 0 only when the whole word is mapped
\* and `alive` (the tracee exists and is stopped under trace).
PeekOk(mem, alive, addr) ==
  alive /\ addr >= 1 /\ addr + WordSize - 1 <= Len(mem)

AtCap_OffByOne(dest) == Len(dest) >= PATH_MAX

\* dest_offset >= (PATH_MAX - 1): the "overflow check to force breaks".
AtCap(dest) == Len(dest) >= PATH_MAX - 1

\* The state of the copy loops: the tracee's memory and whether it can be
\* read, the word's address, and src_word_offset, word_number, dest.
CopyState ==
  [mem : Seq(STRING), alive : BOOLEAN, src : Nat, word_number : Nat,
   src_word_offset : Nat, dest : Seq(STRING)]

\* The inner loop over one word, from src_word_offset on: [dest, c] when
\* it ends.
CopyBytes[s \in CopyState] ==
  LET addr == s.src + WordSize * s.word_number
  IN IF s.src_word_offset >= WordSize
     THEN [dest |-> s.dest, c |-> s.mem[addr + WordSize - 1]]
     ELSE LET c0 == s.mem[addr + s.src_word_offset]
              c == IF AtCap(s.dest) THEN NUL ELSE c0
          IN IF c = NUL
             THEN [dest |-> s.dest, c |-> NUL]
             ELSE CopyBytes[[s EXCEPT !.src_word_offset = @ + 1,
                                      !.dest = Append(@, c)]]

\* The outer loop over the words, from word_number on.
CopyWords[s \in CopyState] ==
  IF ~PeekOk(s.mem, s.alive, s.src + WordSize * s.word_number)
  THEN s.dest
  ELSE LET r == CopyBytes[[s EXCEPT !.src_word_offset = 0]]
       IN IF r.c = NUL
          THEN r.dest
          ELSE CopyWords[[s EXCEPT !.word_number = @ + 1, !.dest = r.dest]]

\* The bytes copied to dest; the function returns their number. For a null
\* src nothing is copied and 0 is returned.
pgoptionfiles_copy_from_tracee(mem, alive, src) ==
  IF src = 0 THEN << >>
  ELSE CopyWords[[mem |-> mem, alive |-> alive, src |-> src, word_number |-> 0,
                  src_word_offset |-> 0, dest |-> << >>]]

\* ------------------------------------------------- the post-processing pass

\* file_names_list[i], 0-based; the array is zero-filled past its string.
ByteAt(buf, i) == IF i < Len(buf) THEN buf[i + 1] ELSE NUL

\* file_names_list[i]= c, 0-based.
SetByte(buf, i, c) ==
  IF i < Len(buf) THEN [buf EXCEPT ![i + 1] = c] ELSE buf

\* The state of the pass: file_names_list, i_in and i_out.
PassState == [buf : Seq(STRING), i_in : Nat, i_out : Nat]

\* "Eliminate initial or duplicate or trail delimiters", in place: the
\* array when the loop breaks.
EliminateLoop[s \in PassState] ==
  LET c == ByteAt(s.buf, s.i_in)
      nxt == s.i_in + 1
      skip == [s EXCEPT !.i_in = nxt]
      keep == [buf |-> SetByte(s.buf, s.i_out, c), i_in |-> nxt,
               i_out |-> s.i_out + 1]
  IN IF c = NUL THEN s.buf
     ELSE IF ByteAt(s.buf, nxt) = NUL THEN SetByte(s.buf, s.i_out, NUL)
     ELSE IF c # PGOPTIONFILES_DELIMITER THEN EliminateLoop[keep]
     ELSE IF s.i_out = 0 THEN EliminateLoop[skip]
     ELSE IF ByteAt(s.buf, nxt) = PGOPTIONFILES_DELIMITER
          THEN EliminateLoop[skip]
     ELSE EliminateLoop[keep]

\* The pass without the look at the byte after the last one: the
\* delimiter that ends the list stays.
EliminateDelimiters_KeepLast(list) ==
  CStr(EliminateLoop[[buf |-> list, i_in |-> 0, i_out |-> 0]])
    \o (IF list = << >> THEN << >> ELSE <<PGOPTIONFILES_DELIMITER>>)

EliminateDelimiters(list) ==
  CStr(EliminateLoop[[buf |-> list, i_in |-> 0, i_out |-> 0]])

\* ------------------------------------------------------------ the state

VARIABLES
  \* the build: PGOPTIONFILES_READ and PGOPTIONFILES_USE_TIMEOUT
  READ, USE_TIMEOUT,
  \* the controller: main() and pgoptionfiles_tracer()
  pc,               \* "main", "wait", "timeout_wait", "done"; "copy" and
                    \* "copied" when the copy function runs on its own
  trace_number, status, retcode, usleep_mikes,
  file_names_list, error_list,
  exit_status,      \* what main() returned, as the parent sees it; -1 before
  \* the subordinate, as the kernel holds it
  tst,              \* "none", "user", "grpstop", "sigstop", "entry", "kernel",
                    \* "exitstop", "zombie", "reaped"
  traced,           \* PTRACE_TRACEME took effect and the tracer still exists
  systrace,         \* resumed with PTRACE_SYSCALL: stops at syscall boundaries
  pending,          \* the status word the next waitpid() reports, or NoStatus
  regs, mem,        \* its registers and its memory
  \* the subordinate's program: pgoptionfiles_tracee(), pgoptionfiles_tracee_error()
  tpc, errmsg, excode, sysret,
  ncalls, nfaults,
  \* history, written but never read by the program
  cur,              \* the syscall in progress, as issued
  lastexec,         \* the last file-access syscall the kernel executed
  emitted,          \* paths with "my.cnf" of the file-access calls issued
  observed,         \* paths with "my.cnf" the tracer extracted
  recorded,         \* paths the tracer appended to file_names_list
  lastpass,         \* the tracer's latest pass: the tracee's state in it and
                    \* the ptrace requests on registers and memory it made
  written,          \* the highest index written so far in file_name and in
                    \* error_list
  at_return,        \* tst when pgoptionfiles_tracer() returned
  cause,            \* why the session ended
  setup_failure,    \* the setup step of the tracee that failed
  tcode             \* the status word the tracee ended with, or NoStatus

ctl == <<pc, trace_number, status, retcode, usleep_mikes, file_names_list,
         error_list, exit_status>>
sub == <<tst, traced, systrace, pending, regs, mem>>
prog == <<tpc, errmsg, excode, sysret, ncalls>>
hist == <<cur, lastexec, emitted, observed, recorded, lastpass, written, at_return, cause,
          setup_failure, tcode>>
vars == <<READ, USE_TIMEOUT, ctl, sub, prog, nfaults, hist>>

NoStatus == -1
NoCall == [nr |-> NO_SYSCALL, ptr |-> 0, path |-> << >>]
NoExec == [path |-> << >>, kpath |-> << >>, ok |-> FALSE, watched |-> FALSE,
           moved |-> FALSE]
\* No pass yet, or a pass that asked nothing of the tracee.
NoPass == [at |-> "none", ops |-> {}]
\* Nothing written yet in file_name; error_list as main() initialised it,
\* up to its NUL.
NoWrites == [file_name |-> -1, error_list |-> Len(ErrorListInit)]
UserRegs == [orig_rax |-> NO_SYSCALL, rdi |-> 0, rsi |-> 0]
\* What PTRACE_GETREGS leaves in `registers` when it fails: anything.
GarbageRegs == {UserRegs, [orig_rax |-> SYSCALL_OPENAT, rdi |-> 0, rsi |-> 1]}

FileSyscalls == {SYSCALL_OPENAT, SYSCALL_ACCESS, SYSCALL_STAT, SYSCALL_OPEN,
                 SYSCALL_LSTAT}

\* ------------------------------------------- what the tracee's library does

\* Memory images the library passes path pointers into.
\* "my.cnf" NUL "a/my.cnf" NUL ...: two names of a string table.
ImgTable == <<"m","y",".","c","n","f",NUL,"a","/","m","y",".","c","n","f",NUL,
              NUL,NUL,NUL,NUL,NUL,NUL,NUL,NUL>>
\* A name that starts with the delimiter.
ImgDelim == <<PGOPTIONFILES_DELIMITER,"m","y",".","c","n","f",NUL>>
ImgOther == <<"l","i","b",".","s","o",NUL,NUL>>
\* A name that starts with the error marker.
ImgMarker == ErrorMarker \o TargetName \o <<NUL,NUL,NUL>>

\* A name longer than PATH_MAX.
ImgLong ==
  TargetName \o <<"/">> \o [i \in 1..(PATH_MAX - 4) |-> "b"]
    \o [i \in 1..WordSize |-> NUL]
\* An error text of PATH_MAX - 2 bytes.
ImgMarkerLong ==
  ErrorMarker \o [i \in 1..(PATH_MAX - 9) |-> "b"]
    \o [i \in 1..WordSize |-> NUL]
\* A name whose NUL lies in a word that reaches past the mapped memory.
ImgEdge == TargetName \o <<"/","x","y","z",NUL>>

\* The syscalls the library issues: the five that are monitored, on names
\* that hold "my.cnf" and on names that do not, on a null pointer, and one
\* that is not monitored. fd is the descriptor argument of openat (rdi,
\* the path in rsi) and of fstat (rdi, the buffer in rsi).
Calls == { [nr |-> SYSCALL_OPENAT, image |-> ImgTable, ptr |-> 1, fd |-> 8],
           [nr |-> SYSCALL_ACCESS, image |-> ImgTable, ptr |-> 8, fd |-> 0],
           [nr |-> SYSCALL_STAT, image |-> ImgDelim, ptr |-> 1, fd |-> 0],
           [nr |-> SYSCALL_LSTAT, image |-> ImgOther, ptr |-> 1, fd |-> 0],
           [nr |-> SYSCALL_OPEN, image |-> ImgMarker, ptr |-> 1, fd |-> 0],
           [nr |-> SYSCALL_LSTAT, image |-> ImgEdge, ptr |-> 1, fd |-> 0],
           [nr |-> SYSCALL_STAT, image |-> ImgLong, ptr |-> 1, fd |-> 0],
           [nr |-> SYSCALL_OPEN, image |-> ImgMarkerLong, ptr |-> 1, fd |-> 0],
           [nr |-> SYSCALL_ACCESS, image |-> ImgOther, ptr |-> 0, fd |-> 0],
           [nr |-> SYSCALL_FSTAT, image |-> ImgOther, ptr |-> 1, fd |-> 1] }

\* The files that exist.
ExistingFiles == { <<"a","/","m","y",".","c","n","f">>, MsgMysqlConnect }

\* The image tracee_error() passes: the message and its NUL, word-filled.
MsgImage(msg) ==
  msg \o [i \in 1..(2 * WordSize - Len(msg)) |-> NUL]

\* The C string at address ptr, as the kernel reads it; << >> also when
\* ptr faults.
StringAt(image, ptr) ==
  IF ptr < 1 \/ ptr > Len(image) THEN << >>
  ELSE CStr(SubSeq(image, ptr, Len(image)))

\* The register a file-access syscall takes its path from.
PathReg(r) == IF r.orig_rax = SYSCALL_OPENAT THEN r.rsi ELSE r.rdi

\* ------------------------------------------------------------ the kernel

\* The tracee issues a syscall: it stops at the entry when the tracer asked
\* for syscall stops, and goes on into the kernel otherwise.
Issue(nr, rdi, rsi, image) ==
  /\ regs' = [orig_rax |-> nr, rdi |-> rdi, rsi |-> rsi]
  /\ mem' = image
  /\ cur' = [nr |-> nr, ptr |-> PathReg(regs'),
             path |-> IF nr \in FileSyscalls
                      THEN StringAt(image, PathReg(regs')) ELSE << >>]
  /\ IF systrace
     THEN tst' = "entry" /\ pending' = W_STOPCODE(SIGTRAP)
     ELSE tst' = "kernel" /\ UNCHANGED pending

\* A signal sent to the tracee in state t: [tst, pending, tcode] after it.
\* SIGKILL ends it; another signal stops a traced tracee that runs
\* (signal-delivery-stop), ends an untraced one that runs, and stays queued
\* for one that is stopped.
SignalEffect(sig, t, pend, code) ==
  IF t \in {"none", "zombie", "reaped"}
  THEN [tst |-> t, pending |-> pend, tcode |-> code]
  ELSE IF sig = SIGKILL \/ (~traced /\ t \in {"user", "kernel"} /\ sig = SIGTERM)
  THEN [tst |-> "zombie", pending |-> W_EXITCODE(0, sig),
        tcode |-> W_EXITCODE(0, sig)]
  ELSE IF traced /\ t \in {"user", "kernel"}
  THEN [tst |-> "sigstop", pending |-> W_STOPCODE(sig), tcode |-> code]
  ELSE [tst |-> t, pending |-> pend, tcode |-> code]

\* A ptrace request on the tracee needs it stopped under trace.
PtraceStopped(t) == traced /\ t \in {"sigstop", "entry", "exitstop"}

\* The tracee, in the kernel, executes the syscall its registers hold now.
KernelRun ==
  /\ tst = "kernel"
  /\ LET nr == regs.orig_rax
         kpath == StringAt(mem, PathReg(regs))
         ok == kpath \in ExistingFiles
     IN IF nr = SYSCALL_EXIT_GROUP
        THEN /\ tst' = IF pc = "done" THEN "reaped" ELSE "zombie"
             /\ pending' = IF pc = "done" THEN NoStatus
                           ELSE W_EXITCODE(regs.rdi, 0)
             /\ tcode' = W_EXITCODE(regs.rdi, 0)
             /\ tpc' = "gone"
             /\ UNCHANGED <<regs, mem, sysret, lastexec>>
             /\ cur' = NoCall
        ELSE /\ cur' = NoCall
             /\ sysret' = IF nr \in FileSyscalls THEN ok ELSE TRUE
             /\ lastexec' = IF nr \in FileSyscalls
                            THEN [path |-> cur.path, kpath |-> kpath,
                                  ok |-> ok, watched |-> systrace,
                                  moved |-> PathReg(regs) # cur.ptr]
                            ELSE lastexec
             /\ IF systrace
                THEN /\ tst' = "exitstop"
                     /\ pending' = W_STOPCODE(SIGTRAP)
                     /\ UNCHANGED <<regs, mem>>
                ELSE /\ tst' = "user"
                     /\ regs' = UserRegs
                     /\ mem' = << >>
                     /\ UNCHANGED pending
             /\ UNCHANGED <<tcode, tpc>>
  /\ UNCHANGED <<READ, USE_TIMEOUT, ctl, traced, systrace, errmsg, excode,
                 ncalls, nfaults, emitted, observed, recorded, lastpass, written, at_return, cause,
                 setup_failure>>

\* A signal from outside reaches the running tracee (a resized terminal
\* sends SIGWINCH): under trace that is a signal-delivery-stop.
SignalArrives ==
  /\ pc # "done" /\ tst = "user" /\ traced
  /\ nfaults < MaxFaults
  /\ nfaults' = nfaults + 1
  /\ tst' = "sigstop"
  /\ pending' = W_STOPCODE(SIGWINCH)
  /\ UNCHANGED <<READ, USE_TIMEOUT, ctl, traced, systrace, regs, mem, prog, hist>>

\* The tracee is killed from outside.
ExternalKill ==
  /\ pc # "done" /\ tst \in {"user", "grpstop", "sigstop", "entry", "kernel", "exitstop"}
  /\ nfaults < MaxFaults
  /\ nfaults' = nfaults + 1
  /\ LET e == SignalEffect(SIGKILL, tst, pending, tcode)
     IN tst' = e.tst /\ pending' = e.pending /\ tcode' = e.tcode
  /\ tpc' = "gone"
  /\ UNCHANGED <<READ, USE_TIMEOUT, ctl, traced, systrace, regs, mem, errmsg,
                 excode, sysret, ncalls, cur, lastexec, emitted, observed,
                 recorded, lastpass, written, at_return, cause, setup_failure>>

\* ------------------------------------------------------------ the tracee

\* ptrace(PTRACE_TRACEME): its result is not looked at.
TraceeTraceme ==
  /\ pc # "done" /\ tst = "user" /\ tpc = "traceme"
  /\ \E ok \in BOOLEAN :
       /\ traced' = ok
       /\ setup_failure' = IF ok THEN setup_failure ELSE "traceme"
  /\ tpc' = "raise"
  /\ UNCHANGED <<READ, USE_TIMEOUT, ctl, tst, systrace, pending, regs, mem,
                 errmsg, excode, sysret, ncalls, nfaults, cur, lastexec,
                 emitted, observed, recorded, lastpass, written, at_return, cause, tcode>>

\* raise(SIGSTOP): under trace a signal-delivery-stop the tracer's waitpid()
\* reports; without trace a stop that waitpid() without WUNTRACED does not.
TraceeRaise ==
  /\ pc # "done" /\ tst = "user" /\ tpc = "raise"
  /\ \/ /\ tpc' = "dlopen"
        /\ IF traced
           THEN tst' = "sigstop" /\ pending' = W_STOPCODE(SIGSTOP)
           ELSE tst' = "grpstop" /\ UNCHANGED pending
        /\ UNCHANGED <<errmsg, setup_failure>>
     \/ /\ tpc' = "err_fopen"
        /\ errmsg' = MsgRaise
        /\ setup_failure' = "raise"
        /\ UNCHANGED <<tst, pending>>
  /\ UNCHANGED <<READ, USE_TIMEOUT, ctl, traced, systrace, regs, mem, excode,
                 sysret, ncalls, nfaults, cur, lastexec, emitted, observed,
                 recorded, lastpass, written, at_return, cause, tcode>>

\* The steps after the stop, in order, with the message of each failure.
Steps == <<"dlopen", "dlsym_init", "dlsym_options", "dlsym_connect",
           "mysql_init", "mysql_options", "mysql_real_connect", "exit">>
StepMsg == [dlopen |-> MsgDlopen, dlsym_init |-> MsgDlsymInit,
            dlsym_options |-> MsgDlsymOptions, dlsym_connect |-> MsgDlsymConnect,
            mysql_init |-> MsgMysqlInit, mysql_options |-> MsgMysqlOptions,
            mysql_real_connect |-> MsgMysqlConnect]
SetupSteps == {"dlopen", "dlsym_init", "dlsym_options", "dlsym_connect"}
\* The step in which the library reads its option files ("The actual
\* reading takes place during mysql_real_connect").
LibrarySteps == {"mysql_real_connect"}
NextStep(s) == Steps[(CHOOSE i \in 1..Len(Steps) : Steps[i] = s) + 1]

\* dlopen(), dlsym() x 3, mysql_init(), mysql_options(), mysql_real_connect():
\* each goes on to the next step or calls pgoptionfiles_tracee_error().
TraceeStep ==
  /\ pc # "done" /\ tst = "user" /\ tpc \in DOMAIN StepMsg
  /\ \/ /\ tpc' = NextStep(tpc)
        /\ excode' = EXIT_SUCCESS
        /\ UNCHANGED <<errmsg, setup_failure>>
     \/ /\ tpc' = "err_fopen"
        /\ errmsg' = StepMsg[tpc]
        /\ setup_failure' = IF tpc \in SetupSteps THEN tpc ELSE setup_failure
        /\ UNCHANGED excode
  /\ UNCHANGED <<READ, USE_TIMEOUT, ctl, sub, sysret, ncalls, nfaults, cur,
                 lastexec, emitted, observed, recorded, lastpass, written, at_return, cause, tcode>>

\* A syscall of the library, while the session lasts.
TraceeSyscall ==
  /\ pc # "done" /\ tst = "user" /\ tpc \in LibrarySteps
  /\ ncalls < MaxCalls
  /\ ncalls' = ncalls + 1
  /\ \E c \in Calls :
       /\ IF c.nr \in {SYSCALL_OPENAT, SYSCALL_FSTAT}
          THEN Issue(c.nr, c.fd, c.ptr, c.image)
          ELSE Issue(c.nr, c.ptr, 0, c.image)
       /\ emitted' = IF c.nr \in FileSyscalls
                         /\ strstr(StringAt(c.image, c.ptr), TargetName)
                      THEN Append(emitted, StringAt(c.image, c.ptr))
                      ELSE emitted
  /\ UNCHANGED <<READ, USE_TIMEOUT, ctl, traced, systrace, tpc, errmsg, excode,
                 sysret, nfaults, lastexec, observed, recorded, lastpass, written, at_return, cause,
                 setup_failure, tcode>>

\* pgoptionfiles_tracee_error(): fopen(message, "r"), an openat ...
TraceeErrorFopen ==
  /\ tst = "user" /\ tpc = "err_fopen"
  /\ Issue(SYSCALL_OPENAT, 0, 1, MsgImage(errmsg))
  /\ tpc' = "err_fopen_ret"
  /\ UNCHANGED <<READ, USE_TIMEOUT, ctl, traced, systrace, errmsg, excode,
                 sysret, ncalls, nfaults, lastexec, emitted, observed,
                 recorded, lastpass, written, at_return, cause, setup_failure, tcode>>

\* ... then exit(EXIT_FAILURE) when it returned NULL, access(message, F_OK)
\* when it did not ...
TraceeErrorAfterFopen ==
  /\ tst = "user" /\ tpc = "err_fopen_ret"
  /\ IF ~sysret
     THEN /\ tpc' = "exit"
          /\ excode' = EXIT_FAILURE
          /\ UNCHANGED <<sub, cur>>
     ELSE /\ Issue(SYSCALL_ACCESS, 1, 0, MsgImage(errmsg))
          /\ tpc' = "err_access_ret"
          /\ UNCHANGED <<traced, systrace, excode>>
  /\ UNCHANGED <<READ, USE_TIMEOUT, ctl, errmsg, sysret, ncalls, nfaults,
                 lastexec, emitted, observed, recorded, lastpass, written, at_return, cause, setup_failure,
                 tcode>>

\* ... and exit(EXIT_FAILURE) when access() returned 0, exit(EXIT_SUCCESS)
\* when it did not.
TraceeErrorAfterAccess ==
  /\ tst = "user" /\ tpc = "err_access_ret"
  /\ tpc' = "exit"
  /\ excode' = IF sysret THEN EXIT_FAILURE ELSE EXIT_SUCCESS
  /\ UNCHANGED <<READ, USE_TIMEOUT, ctl, sub, errmsg, sysret, ncalls, nfaults,
                 hist>>

\* exit(): exit_group.
TraceeExit ==
  /\ tst = "user" /\ tpc = "exit"
  /\ Issue(SYSCALL_EXIT_GROUP, excode, 0, << >>)
  /\ tpc' = "exiting"
  /\ UNCHANGED <<READ, USE_TIMEOUT, ctl, traced, systrace, errmsg, excode,
                 sysret, ncalls, nfaults, lastexec, emitted, observed,
                 recorded, lastpass, written, at_return, cause, setup_failure, tcode>>

\* ------------------------------------------------------------ the tracer

\* What one pass of the loop body decides: whether it breaks, what it
\* leaves in retcode, file_names_list and error_list, whether it sent
\* SIGKILL, and the registers it wrote back (PTRACE_SETREGS).
Outcome(brk, rc, list, errl, why) ==
  [brk |-> brk, retcode |-> rc, list |-> list, errl |-> errl, kill |-> FALSE,
   setregs |-> FALSE, newregs |-> UserRegs, obs |-> observed,
   rec |-> recorded, ops |-> {}, top |-> -1, cause |-> why]

\* registers.rsi+= file_name_length, or registers.rdi+= file_name_length.
Redirect(registers, file_name_length) ==
  IF registers.orig_rax = SYSCALL_OPENAT
  THEN [registers EXCEPT !.rsi = @ + file_name_length]
  ELSE [registers EXCEPT !.rdi = @ + file_name_length]

\* The comparison without the "+ 1": it starts at the delimiter.
IsErrorSignal_AtDelimiter(copied) ==
  strncmp_eq(<<PGOPTIONFILES_DELIMITER>> \o copied, ErrorMarker)

PathArgument_Rdi(registers) == registers.rdi

\* The register the tracer takes the path's address from: registers.rsi
\* for SYSCALL_OPENAT, registers.rdi for the other four.
PathArgument(registers) ==
  IF registers.orig_rax = SYSCALL_OPENAT THEN registers.rsi
  ELSE registers.rdi

\* strncmp(file_name + 1, "Error: ", sizeof("Error: ") - 1) == 0
IsErrorSignal(copied) == strncmp_eq(copied, ErrorMarker)

\* strstr(file_name, "my.cnf") != NULL
IsTarget(file_name) == strstr(file_name, TargetName)

\* The duplicate test with strstr()'s arguments exchanged.
IsDuplicate_Exchanged(list, entry) == strstr(entry, list)

\* strstr(file_names_list, file_name) != NULL: "ignore duplicate file name"
IsDuplicate(list, entry) == strstr(list, entry)

\* The "overflow check".
Overflows_Exceeds(list, entry) ==
  strlen(list) + strlen(entry) > PGOPTIONFILES_MAX_FILE_NAMES_LIST_SIZE

Overflows(list, entry) ==
  strlen(list) + strlen(entry) >= PGOPTIONFILES_MAX_FILE_NAMES_LIST_SIZE

\* strcpy() in the place of strcat(): the entry replaces the list.
AppendEntry_Copy(list, entry) == entry

\* strcat(file_names_list, file_name)
AppendEntry(list, entry) == strcat(list, entry)

\* The body of "if ((trace_number %2) == 1)", with the registers that
\* PTRACE_GETREGS left and `alive` (the tracee can be read).
\* The highest index of file_name the pass writes: file_name[0] is set to
\* the delimiter; the copy, unless src is NULL, stores its NUL at
\* file_name[1 + copy_result]; for a path that holds "my.cnf" the
\* delimiter goes to file_name[file_name_length] and a NUL behind it.
FileNameTop(src, copy_result, matched) ==
  IF src = 0 THEN 0
  ELSE IF matched THEN (1 + copy_result) + 1
  ELSE 1 + copy_result

Inspect(registers, alive) ==
  LET psi_entry_nr == registers.orig_rax
      src == PathArgument(registers)
      copied == pgoptionfiles_copy_from_tracee(mem, alive, src)
      copy_result == Len(copied)
      file_name == <<PGOPTIONFILES_DELIMITER>> \o copied
      file_name_length == strlen(file_name)
      entry == file_name \o <<PGOPTIONFILES_DELIMITER>>
      go == Outcome(FALSE, retcode, file_names_list, error_list, "none")
      seen == [go EXCEPT !.obs = Append(observed, copied),
                         !.setregs = (READ = 0),
                         !.newregs = Redirect(registers, file_name_length)]
      o == IF psi_entry_nr \notin FileSyscalls THEN go
           ELSE IF ~(copy_result > 0) THEN go
           ELSE IF IsErrorSignal(copied)
                THEN Outcome(TRUE, RetErrorSignal, file_names_list,
                             strcat(error_list, copied), "errorsignal")
           ELSE IF ~IsTarget(file_name) THEN go
           ELSE IF IsDuplicate(file_names_list, entry) THEN seen
           ELSE IF Overflows(file_names_list, entry)
                THEN [seen EXCEPT !.brk = TRUE, !.cause = "capacity"]
           ELSE [seen EXCEPT !.list = AppendEntry(file_names_list, entry),
                             !.rec = Append(recorded, copied)]
      matched == copy_result > 0 /\ ~IsErrorSignal(copied) /\ IsTarget(file_name)
  IN [o EXCEPT !.ops =
        {"getregs"}
          \cup (IF psi_entry_nr \in FileSyscalls /\ src # 0
                THEN {"peekdata"} ELSE {})
          \cup (IF o.setregs THEN {"setregs"} ELSE {}),
               !.top =
        IF psi_entry_nr \in FileSyscalls
        THEN FileNameTop(src, copy_result, matched) ELSE -1]

IsInitialStop_AnyStop(st) == WIFSTOPPED(st)

\* WIFSTOPPED(status) && WSTOPSIG(status) == SIGSTOP
IsInitialStop(st) == WIFSTOPPED(st) /\ WSTOPSIG(st) = SIGSTOP

\* written after a pass that wrote file_name up to index top and left
\* error_list as errl, NUL included.
Written(top, errl) ==
  [file_name |-> IF top > written.file_name THEN top ELSE written.file_name,
   error_list |-> IF Len(errl) > written.error_list THEN Len(errl)
                  ELSE written.error_list]

\* A write went past the end of char file_name[PATH_MAX] or of
\* char error_list[4096].
Smashed(w) ==
  w.file_name >= PATH_MAX \/ w.error_list >= ERROR_LIST_SIZE

\* What a write past the end of an array does is not defined. What lies
\* behind the array depends on the build: bytes of padding, and the run
\* goes on unharmed; the stack protector's guard or a saved register, and
\* the process is ended by a signal when the function returns; and behind
\* error_list, where main() declares it after file_names_list, the
\* array file_names_list itself, which then holds the bytes that ran over.
Overruns(w) ==
  IF ~Smashed(w) THEN {"unharmed"}
  ELSE {"unharmed", "aborted"}
         \cup (IF w.error_list >= ERROR_LIST_SIZE THEN {"clobbered"} ELSE {})

\* file_names_list as a string when the bytes of errl from index
\* sizeof(error_list) on, with their NUL, are stored from its start.
Clobbered(errl) == SubSeq(errl, ERROR_LIST_SIZE + 1, Len(errl))

\* The loop body after waitpid() returned waitpid_result and left st in
\* status; t is the tracee's state then.
Body(waitpid_result, st, t, registers) ==
  IF waitpid_result < 0
  THEN IF WIFEXITED(st)
       THEN Outcome(TRUE, 0, file_names_list, error_list, "waitfail")
       ELSE Outcome(TRUE, RetWaitFailed, file_names_list,
                    strcat(error_list, MsgWaitFailed), "waitfail")
  ELSE IF WIFEXITED(st)
  THEN Outcome(TRUE, 0, file_names_list, error_list, "exited")
  ELSE IF trace_number = 0
  THEN IF ~IsInitialStop(st)
       THEN [Outcome(TRUE, RetWaitStatus, file_names_list,
                     strcat(error_list, MsgWaitStatus), "protocol")
             EXCEPT !.kill = TRUE]
       ELSE Outcome(FALSE, retcode, file_names_list, error_list, "none")
  ELSE IF trace_number % 2 = 1
  THEN Inspect(registers, PtraceStopped(t))
  ELSE Outcome(FALSE, retcode, file_names_list, error_list, "none")

\* The loop is left: the post-processing pass, the return to main(), its
\* two printf() and its return. With the tracer gone the kernel detaches
\* the tracee, which runs on (a pending SIGTERM ends it), and init reaps it.
Finish(rc, list, errl, st, t, pend, code, registers, why, obs, rec, ops, top) ==
  LET sig == IF pend # NoStatus THEN WSTOPSIG(pend) ELSE WSTOPSIG(st)
      dies == t = "sigstop" /\ sig = SIGTERM
      t2 == IF t = "entry" THEN "kernel"
            ELSE IF t = "exitstop" THEN "user"
            ELSE IF t = "sigstop" THEN (IF dies THEN "reaped" ELSE "user")
            ELSE IF t = "zombie" THEN "reaped"
            ELSE t
      w == Written(top, errl)
  IN \E overrun \in Overruns(w) :
     /\ pc' = "done"
     /\ retcode' = rc
     /\ file_names_list' =
          EliminateDelimiters(IF overrun = "clobbered" THEN Clobbered(errl)
                              ELSE list)
     /\ error_list' = errl
     /\ exit_status' = IF overrun = "aborted" THEN ExitSignaled(SIGABRT)
                       ELSE ExitStatus(rc)
     /\ written' = w
     /\ at_return' = t
     /\ cause' = why
     /\ observed' = obs
     /\ recorded' = rec
     /\ lastpass' = [at |-> t, ops |-> ops]
     /\ tst' = t2
     /\ traced' = FALSE
     /\ systrace' = FALSE
     /\ pending' = NoStatus
     /\ tcode' = IF dies THEN W_EXITCODE(0, SIGTERM) ELSE code
     /\ tpc' = IF t2 = "reaped" THEN "gone" ELSE tpc
     /\ regs' = IF t2 = "user" THEN UserRegs ELSE registers
     /\ mem' = IF t2 = "user" THEN << >> ELSE mem

\* The rest of one pass and the head of the next: ++trace_number and
\* ptrace(PTRACE_SYSCALL), which fails unless the tracee is stopped under
\* trace; then the tracer is in waitpid() again.
Pass(waitpid_result, st, t) ==
  \E registers \in (IF PtraceStopped(t) THEN {regs} ELSE GarbageRegs) :
    LET o == Body(waitpid_result, st, t, registers)
        k == IF o.kill THEN SignalEffect(SIGKILL, t, NoStatus, tcode)
             ELSE [tst |-> t, pending |-> IF waitpid_result < 0 THEN pending
                                          ELSE NoStatus,
                   tcode |-> tcode]
        regs1 == IF o.setregs /\ PtraceStopped(t) THEN o.newregs ELSE regs
    IN /\ status' = st
       /\ IF o.brk
          THEN /\ Finish(o.retcode, o.list, o.errl, st, k.tst, k.pending, k.tcode,
                         regs1, o.cause, o.obs, o.rec, o.ops, o.top)
               /\ UNCHANGED <<trace_number, usleep_mikes>>
          ELSE IF ~PtraceStopped(k.tst)
          THEN /\ Finish(RetResume, o.list, o.errl, st, k.tst, k.pending,
                         k.tcode, regs1, "resume", o.obs, o.rec, o.ops, o.top)
               /\ trace_number' = trace_number + 1
               /\ UNCHANGED usleep_mikes
          ELSE /\ trace_number' = trace_number + 1
               /\ pc' = "wait"
               /\ usleep_mikes' = USLEEP_FIRST
               /\ file_names_list' = o.list
               /\ error_list' = o.errl
               /\ observed' = o.obs
               /\ recorded' = o.rec
               /\ lastpass' = [at |-> t, ops |-> o.ops]
               /\ written' = Written(o.top, o.errl)
               /\ systrace' = TRUE
               /\ pending' = NoStatus
               /\ tst' = IF k.tst = "entry" THEN "kernel" ELSE "user"
               /\ regs' = IF k.tst = "entry" THEN regs1 ELSE UserRegs
               /\ mem' = IF k.tst = "entry" THEN mem ELSE << >>
               /\ UNCHANGED <<retcode, exit_status, traced, tpc, tcode,
                              at_return, cause>>

\* if (argc < 2): the usage message and exit(1).
MainUsage ==
  /\ pc = "main"
  /\ pc' = "done"
  /\ exit_status' = ExitUsage
  /\ cause' = "usage"
  /\ UNCHANGED <<READ, USE_TIMEOUT, trace_number, status, retcode, usleep_mikes,
                 file_names_list, error_list, sub, prog, nfaults, cur, lastexec,
                 emitted, observed, recorded, lastpass, written, at_return, setup_failure, tcode>>

\* fork() failed: the message and return -1.
MainForkFails ==
  /\ pc = "main"
  /\ pc' = "done"
  /\ exit_status' = ExitStatus(RetFork)
  /\ cause' = "spawn"
  /\ UNCHANGED <<READ, USE_TIMEOUT, trace_number, status, retcode, usleep_mikes,
                 file_names_list, error_list, sub, prog, nfaults, cur, lastexec,
                 emitted, observed, recorded, lastpass, written, at_return, setup_failure, tcode>>

\* fork(): the child runs pgoptionfiles_tracee(), the parent enters
\* pgoptionfiles_tracer() and its first waitpid().
MainFork ==
  /\ pc = "main"
  /\ pc' = "wait"
  /\ tst' = "user"
  /\ tpc' = "traceme"
  /\ UNCHANGED <<READ, USE_TIMEOUT, trace_number, status, retcode, usleep_mikes,
                 file_names_list, error_list, exit_status, traced, systrace,
                 pending, regs, mem, errmsg, excode, sysret, ncalls, nfaults,
                 hist>>

\* waitpid() reports a change of the tracee's state (and reaps a tracee
\* that ended); the pass goes on from there.
TracerWait ==
  /\ pc = "wait" /\ pending # NoStatus
  /\ Pass(1, pending, IF tst = "zombie" THEN "reaped" ELSE tst)
  /\ UNCHANGED <<READ, USE_TIMEOUT, errmsg, excode, sysret, ncalls, nfaults,
                 cur, lastexec, emitted, setup_failure>>

\* waitpid() fails: status keeps what it held.
TracerWaitFails ==
  /\ pc = "wait"
  /\ nfaults < MaxFaults
  /\ nfaults' = nfaults + 1
  /\ Pass(-1, status, tst)
  /\ UNCHANGED <<READ, USE_TIMEOUT, errmsg, excode, sysret, ncalls,
                 cur, lastexec, emitted, setup_failure>>

\* PGOPTIONFILES_USE_TIMEOUT: waitpid(WNOHANG) returned 0, usleep(); after
\* the last one kill(pid, SIGTERM) and a waitpid() that blocks.
TracerSleep ==
  /\ pc = "wait" /\ USE_TIMEOUT # 0 /\ pending = NoStatus
  /\ IF usleep_mikes * 2 < USLEEP_LIMIT
     THEN /\ usleep_mikes' = usleep_mikes * 2
          /\ UNCHANGED <<pc, tst, pending, tcode, tpc>>
     ELSE LET e == SignalEffect(SIGTERM, tst, pending, tcode)
          IN /\ pc' = "timeout_wait"
             /\ tst' = e.tst /\ pending' = e.pending /\ tcode' = e.tcode
             /\ tpc' = IF e.tst = "zombie" THEN "gone" ELSE tpc
             /\ UNCHANGED usleep_mikes
  /\ UNCHANGED <<READ, USE_TIMEOUT, trace_number, status, retcode,
                 file_names_list, error_list, exit_status, traced, systrace,
                 regs, mem, errmsg, excode, sysret, ncalls, nfaults, cur,
                 lastexec, emitted, observed, recorded, lastpass, written, at_return, cause,
                 setup_failure>>

\* "Wait for the child to actually terminate", then the timeout's message
\* and retcode, and the break.
TracerTimeoutWait ==
  /\ pc = "timeout_wait" /\ pending # NoStatus
  /\ status' = pending
  /\ Finish(RetTimeout, file_names_list, strcat(error_list, MsgTimeout),
            pending, IF tst = "zombie" THEN "reaped" ELSE tst, NoStatus, tcode, regs,
            "timeout", observed, recorded, {}, -1)
  /\ UNCHANGED <<READ, USE_TIMEOUT, trace_number, usleep_mikes, errmsg, excode,
                 sysret, ncalls, nfaults, cur, lastexec, emitted,
                 setup_failure>>

\* ------------------------------------------------------- the specification

Init ==
  /\ READ \in {0, 1}
  /\ USE_TIMEOUT \in {0, 1}
  /\ pc = "main"
  /\ trace_number = 0 /\ status = 0 /\ retcode = 0 /\ usleep_mikes = USLEEP_FIRST
  /\ file_names_list = << >>
  /\ error_list = ErrorListInit
  /\ exit_status = -1
  /\ tst = "none" /\ traced = FALSE /\ systrace = FALSE /\ pending = NoStatus
  /\ regs = UserRegs /\ mem = << >>
  /\ tpc = "none" /\ errmsg = << >> /\ excode = EXIT_SUCCESS /\ sysret = FALSE
  /\ ncalls = 0 /\ nfaults = 0
  /\ cur = NoCall /\ lastexec = NoExec
  /\ emitted = << >> /\ observed = << >> /\ recorded = << >>
  /\ lastpass = NoPass
  /\ written = NoWrites
  /\ at_return = "none" /\ cause = "none" /\ setup_failure = "none"
  /\ tcode = NoStatus

Next ==
  \/ MainUsage \/ MainForkFails \/ MainFork
  \/ TracerWait \/ TracerWaitFails \/ TracerSleep \/ TracerTimeoutWait
  \/ TraceeTraceme \/ TraceeRaise \/ TraceeStep \/ TraceeSyscall
  \/ TraceeErrorFopen \/ TraceeErrorAfterFopen \/ TraceeErrorAfterAccess
  \/ TraceeExit
  \/ KernelRun \/ SignalArrives \/ ExternalKill

Spec == Init /\ [][Next]_vars

\* pgoptionfiles_copy_from_tracee() on its own: called once on a memory
\* image, an address in it, before it or after it, or NULL, and a tracee
\* that is stopped under trace or gone. The result goes to observed.
Images == {c.image : c \in Calls}

CopyInit ==
  /\ READ = 0 /\ USE_TIMEOUT = 0
  /\ pc = "copy"
  /\ trace_number = 1 /\ status = W_STOPCODE(SIGTRAP) /\ retcode = 0
  /\ usleep_mikes = USLEEP_FIRST
  /\ file_names_list = << >>
  /\ error_list = ErrorListInit
  /\ exit_status = -1
  /\ tst \in {"entry", "reaped"} /\ traced = TRUE /\ systrace = TRUE
  /\ pending = NoStatus
  /\ mem \in Images
  /\ \E src \in 0..(Len(mem) + 1) :
       regs = [orig_rax |-> SYSCALL_OPEN, rdi |-> src, rsi |-> 0]
  /\ tpc = "none" /\ errmsg = << >> /\ excode = EXIT_SUCCESS /\ sysret = FALSE
  /\ ncalls = 0 /\ nfaults = 0
  /\ cur = NoCall /\ lastexec = NoExec
  /\ emitted = << >> /\ observed = << >> /\ recorded = << >>
  /\ lastpass = NoPass
  /\ written = NoWrites
  /\ at_return = "none" /\ cause = "none" /\ setup_failure = "none"
  /\ tcode = NoStatus

CopyCall ==
  /\ pc = "copy"
  /\ pc' = "copied"
  /\ observed' = <<pgoptionfiles_copy_from_tracee(mem, PtraceStopped(tst),
                                                  PathArgument(regs))>>
  /\ UNCHANGED <<READ, USE_TIMEOUT, trace_number, status, retcode,
                 usleep_mikes, file_names_list, error_list, exit_status,
                 sub, prog, nfaults, cur, lastexec, emitted, recorded,
                 lastpass, written, at_return, cause, setup_failure, tcode>>

CopyNext == CopyCall

CopySpec == CopyInit /\ [][CopyNext]_vars

\* The steps of the two processes and of the kernel, without what may or
\* may not come from outside (a signal, a kill, a failing waitpid()).
Scheduled ==
  \/ MainUsage \/ MainForkFails \/ MainFork
  \/ TracerWait \/ TracerSleep \/ TracerTimeoutWait
  \/ TraceeTraceme \/ TraceeRaise \/ TraceeStep \/ TraceeSyscall
  \/ TraceeErrorFopen \/ TraceeErrorAfterFopen \/ TraceeErrorAfterAccess
  \/ TraceeExit
  \/ KernelRun

\* Both processes are scheduled: a step of theirs that can be taken is
\* taken in the end.
FairSpec == Spec /\ WF_vars(Scheduled)

\* ------------------------------------------------ the list, read as entries

IsDelimiter(c) == c = PGOPTIONFILES_DELIMITER

\* A string holds the delimiter.
HasDelimiter(p) == \E i \in 1..Len(p) : IsDelimiter(p[i])

\* No leading, no trailing and no two adjacent delimiters.
WellDelimited(s) ==
  /\ s # << >> => ~IsDelimiter(s[1]) /\ ~IsDelimiter(s[Len(s)])
  /\ \A i \in 1..(Len(s) - 1) : ~(IsDelimiter(s[i]) /\ IsDelimiter(s[i + 1]))

\* The characters of a string that are not delimiters.
StripDelimiters(s) == SelectSeq(s, LAMBDA c : ~IsDelimiter(c))

\* The pieces a non-empty string falls into at its delimiters.
RECURSIVE Pieces(_)
Pieces(s) ==
  IF ~HasDelimiter(s) THEN <<s>>
  ELSE LET k == CHOOSE i \in 1..Len(s) :
                  IsDelimiter(s[i]) /\ \A j \in 1..(i - 1) : ~IsDelimiter(s[j])
       IN <<SubSeq(s, 1, k - 1)>> \o Pieces(SubSeq(s, k + 1, Len(s)))

\* The entries a reader of the printed list sees.
Entries(list) == IF list = << >> THEN << >> ELSE Pieces(list)

\* Paths joined by single delimiters.
RECURSIVE Join(_)
Join(paths) ==
  IF paths = << >> THEN << >>
  ELSE IF Len(paths) = 1 THEN paths[1]
  ELSE paths[1] \o <<PGOPTIONFILES_DELIMITER>> \o Join(Tail(paths))

\* Paths one after the other.
RECURSIVE Concat(_)
Concat(paths) ==
  IF paths = << >> THEN << >> ELSE paths[1] \o Concat(Tail(paths))

NoDuplicates(q) == \A i, j \in 1..Len(q) : q[i] = q[j] => i = j

Occurrences(q, x) == Cardinality({i \in 1..Len(q) : q[i] = x})

\* A sequence without the repetitions of its elements, in first-seen order.
RECURSIVE FirstSeen(_)
FirstSeen(q) ==
  IF q = << >> THEN << >>
  ELSE LET front == SubSeq(q, 1, Len(q) - 1)
           last == q[Len(q)]
       IN IF \E i \in 1..Len(front) : front[i] = last
          THEN FirstSeen(front)
          ELSE Append(FirstSeen(front), last)

IsPrefix(a, b) == Len(a) <= Len(b) /\ a = SubSeq(b, 1, Len(a))

\* The room the delimited entries of these paths take in file_names_list.
RECURSIVE EntriesSize(_)
EntriesSize(paths) ==
  IF paths = << >> THEN 0 ELSE Len(paths[1]) + 2 + EntriesSize(Tail(paths))

\* The session is over: main() has returned.
Done == pc = "done"

\* ------------------------------------------------------- the properties

\* What C1 says of a finished session: no entry twice, the entries in the
\* order their paths were first extracted, one entry for a path seen twice.
UniqueInOrder ==
  LET entries == Entries(file_names_list)
  IN /\ NoDuplicates(entries)
     /\ IsPrefix(entries, FirstSeen(observed))
     /\ \A i, j \in 1..Len(observed) :
          i # j /\ observed[i] = observed[j]
            => Occurrences(entries, observed[i]) = 1

\* C1, as stated: for every sequence of file-access entries the tracer
\* observes, the final file_names_list holds each matching path at most
\* once, in the order the paths were first emitted; a matching path emitted
\* twice yields exactly one entry.
C1_AsStated == Done => UniqueInOrder

C1_Witness ==
  /\ Done /\ Len(observed) = 2 /\ observed[1] = observed[2]
  /\ ~HasDelimiter(observed[1])
  /\ Entries(file_names_list) = <<observed[1]>>

\* C2, as stated: after the post-processing pass the final file_names_list
\* has no leading, no trailing and no two adjacent delimiters, it is exactly
\* the recorded paths joined by single delimiters (empty when nothing was
\* recorded), and no character of a recorded path is lost.
C2_AsStated ==
  Done => WellDelimited(file_names_list) /\ file_names_list = Join(recorded)

\* C2, read with the delimiters of the paths themselves set aside: the
\* final file_names_list has no leading, no trailing and no
\* two adjacent delimiters; it keeps, in order, every character of the
\* recorded paths that is not a delimiter; and it is exactly the recorded
\* paths joined by single delimiters when none of them starts with, ends
\* with or doubles the delimiter.
C2_Delimiters ==
  Done => /\ WellDelimited(file_names_list)
          /\ StripDelimiters(file_names_list)
               = StripDelimiters(Concat(recorded))
          /\ (\A i \in 1..Len(recorded) : WellDelimited(recorded[i]))
               => file_names_list = Join(recorded)

\* A session that recorded two paths, one of them with the delimiter in it.
C2_Witness ==
  /\ Done /\ Len(recorded) = 2
  /\ \E i \in 1..2 : HasDelimiter(recorded[i])
  /\ file_names_list # << >>

\* C3, as stated: N file-access calls of the tracee on N distinct paths that
\* hold "my.cnf" give a result of exactly N entries, in emission order.
C3_AsStated ==
  (Done /\ NoDuplicates(emitted)) => Entries(file_names_list) = emitted

\* C3, read for the calls the tracer records: when it extracts the path of
\* each of the N calls whole, the N paths are distinct, none begins with
\* "Error: " or holds the delimiter character, and their delimited entries
\* together are shorter than PGOPTIONFILES_MAX_FILE_NAMES_LIST_SIZE, the
\* result is exactly those N entries, in emission order.
C3_AllEntries ==
  ( /\ Done
    /\ observed = emitted
    /\ NoDuplicates(emitted)
    /\ \A i \in 1..Len(emitted) :
         ~HasDelimiter(emitted[i]) /\ ~strncmp_eq(emitted[i], ErrorMarker)
    /\ EntriesSize(emitted) < PGOPTIONFILES_MAX_FILE_NAMES_LIST_SIZE )
    => Entries(file_names_list) = emitted

\* A session of two calls on two distinct paths, both listed.
C3_Witness ==
  /\ Done /\ Len(emitted) = 2 /\ emitted[1] # emitted[2]
  /\ observed = emitted
  /\ Entries(file_names_list) = emitted

\* The string the tracer extracts at this stop.
Extracted == pgoptionfiles_copy_from_tracee(mem, TRUE, PathReg(regs))

\* waitpid() returns with an entry step whose file-access argument begins
\* with "Error: ", and the tracer goes through its pass.
ErrorSignalStep ==
  /\ pc = "wait" /\ pending # NoStatus /\ nfaults' = nfaults
  /\ trace_number % 2 = 1 /\ ~WIFEXITED(pending) /\ PtraceStopped(tst)
  /\ regs.orig_rax \in FileSyscalls
  /\ strncmp_eq(Extracted, ErrorMarker)
  /\ pc' = "done" \/ trace_number' # trace_number

\* The exit statuses of the other ways a session ends.
OtherStatuses ==
  {0, ExitUsage, ExitStatus(RetFork), ExitStatus(RetResume),
   ExitStatus(RetTimeout), ExitStatus(RetWaitFailed),
   ExitStatus(RetWaitStatus)}

\* C4: an entry step whose extracted file-access argument begins with
\* "Error: " ends the session at that step, with "my.cnf" in the string or
\* without: the error text is that string verbatim (after the program's
\* tag), the exit code is the one of this failure alone, and the path list
\* holds the entries collected before that step and no other.
C4_ErrorSignal ==
  [][ErrorSignalStep
       => /\ pc' = "done"
          /\ error_list' = ErrorListInit \o Extracted
          /\ retcode' = RetErrorSignal
          /\ exit_status' = ExitStatus(RetErrorSignal)
          /\ exit_status' \notin OtherStatuses
          /\ recorded' = recorded
          /\ file_names_list' = EliminateDelimiters(file_names_list)]_vars

\* A session ended by an error text that holds "my.cnf", after an entry
\* was collected.
C4_Witness ==
  /\ Done /\ cause = "errorsignal"
  /\ strstr(error_list, TargetName)
  /\ Len(recorded) = 1 /\ file_names_list = recorded[1]

\* C5: with PGOPTIONFILES_READ == 0 the syscall the tracee executes after
\* the tracer redirected it never succeeds, and its path is in the list.
C5_AsStated ==
  (READ = 0 /\ lastexec.moved /\ strstr(lastexec.path, TargetName))
    => /\ ~lastexec.ok
       /\ \E i \in 1..Len(recorded) : recorded[i] = lastexec.path

\* C6: whichever way pgoptionfiles_tracer leaves its loop, the tracee has
\* been reaped by the time the controller returns.
C6_AsStated ==
  (Done /\ cause \notin {"usage", "spawn"}) => at_return = "reaped"

\* The sessions that end without an unrecoverable condition, and the
\* categories of unrecoverable failure with the exit status of each.
Recoverable == {"exited", "capacity"}
CategoryStatus ==
  [spawn |-> ExitStatus(RetFork), protocol |-> ExitStatus(RetWaitStatus),
   waitfail |-> ExitStatus(RetWaitFailed), timeout |-> ExitStatus(RetTimeout)]

\* C7: the exit status is 0 for a session without an unrecoverable
\* condition, and non-zero and unlike that of every other category for a
\* spawn failure, a protocol violation, a wait failure and a timeout.
C7_AsStated ==
  Done => /\ cause \in Recoverable => exit_status = 0
          /\ cause \in DOMAIN CategoryStatus
               => /\ exit_status # 0
                  /\ \A other \in DOMAIN CategoryStatus \ {cause} :
                       exit_status # CategoryStatus[other]

\* C8: a session that timed out has the timeout's error text, a non-zero
\* code, and a tracee that is reaped when the controller returns.
C8_AsStated ==
  (Done /\ cause = "timeout")
    => /\ error_list = ErrorListInit \o MsgTimeout
       /\ exit_status # 0
       /\ at_return = "reaped"

\* The message of each setup step that pgoptionfiles_tracee_error() is given.
SetupMsg ==
  [raise |-> MsgRaise, dlopen |-> MsgDlopen, dlsym_init |-> MsgDlsymInit,
   dlsym_options |-> MsgDlsymOptions, dlsym_connect |-> MsgDlsymConnect]

\* C9: after a failed setup step, in a session nothing from outside cut
\* short, the result has that step's "Error: " message and a failure
\* status, and the tracee has ended with a failure status.
C9_AsStated ==
  (Done /\ tst = "reaped" /\ nfaults = 0 /\ cause # "timeout"
     /\ setup_failure \in DOMAIN SetupMsg)
    => /\ error_list = ErrorListInit \o SetupMsg[setup_failure]
       /\ exit_status # 0
       /\ tcode = W_EXITCODE(EXIT_FAILURE, 0)

\* C10: whatever the tracee does, pgoptionfiles_tracer leaves its loop and
\* the controller returns.
C10_AsStated == <>Done

\* ---------------------------------------------------------------- C11

\* The path the tracer extracted in its latest inspection.
LastExtracted == observed[Len(observed)]

\* The tracer's latest pass ran SETREGS on the tracee at a syscall-entry
\* stop, and the kernel has not run the call yet.
Redirected ==
  /\ tst = "kernel" /\ cur # NoCall
  /\ lastpass.at = "entry" /\ "setregs" \in lastpass.ops

\* C11: when the tracer redirects a matching call (PGOPTIONFILES_READ == 0),
\* the path register (rsi for openat, rdi for the others) holds the original
\* address plus the length of the extracted path: the address of the path's
\* terminating NUL.
C11_AsStated ==
  Redirected => PathReg(regs) = cur.ptr + Len(LastExtracted)

\* ---------------------------------------------------------------- C12

\* A pass of the tracer that extracted a matching path.
MatchingStep == pc # "done" /\ Len(observed') = Len(observed) + 1

\* The path is not yet an entry of the list, and the list with the path
\* between two delimiters would be as long as the list's size or longer.
WouldOverflow ==
  LET p == observed'[Len(observed')]
      entry == <<PGOPTIONFILES_DELIMITER>> \o p \o <<PGOPTIONFILES_DELIMITER>>
  IN /\ ~strstr(file_names_list, entry)
     /\ Len(file_names_list) + Len(p) + 2
          >= PGOPTIONFILES_MAX_FILE_NAMES_LIST_SIZE

\* C12: file_names_list never reaches PGOPTIONFILES_MAX_FILE_NAMES_LIST_SIZE
\* characters; when appending a new delimited entry would reach or exceed
\* that size, the loop ends at that step with the entries gathered so far:
\* the entry is not appended, no error text is added and the return code
\* is 0.
C12_Capacity ==
  /\ [](Len(file_names_list) < PGOPTIONFILES_MAX_FILE_NAMES_LIST_SIZE)
  /\ [][(MatchingStep /\ WouldOverflow)
         => /\ pc' = "done"
            /\ recorded' = recorded
            /\ file_names_list' = EliminateDelimiters(file_names_list)
            /\ error_list' = error_list /\ error_list = ErrorListInit
            /\ retcode' = 0
            /\ exit_status' = ExitStatus(0)]_vars

\* A session that ended on the overflow check with one entry gathered,
\* where the second entry would have made the list exactly as long as
\* its size.
C12_Witness ==
  /\ Done /\ cause = "capacity" /\ retcode = 0
  /\ Len(recorded) = 1 /\ Entries(file_names_list) = recorded
  /\ Len(recorded[1]) + 2 + Len(LastExtracted) + 2
       = PGOPTIONFILES_MAX_FILE_NAMES_LIST_SIZE

\* ---------------------------------------------------------------- C13

\* The states of the tracee in which a ptrace request on it succeeds.
PtraceStops == {"sigstop", "entry", "exitstop"}

\* The tracer's latest pass made PTRACE_GETREGS on a tracee that was not
\* in a ptrace-stop: the request failed.
FailedInspect ==
  "getregs" \in lastpass.ops /\ lastpass.at \notin PtraceStops

\* C13: when PTRACE_SYSCALL, PTRACE_GETREGS or PTRACE_SETREGS fails, the
\* session ends with a failure code and the tracee is killed, and nothing
\* a failed request left behind is used to classify a syscall or to
\* collect a path: after a failed PTRACE_GETREGS the tracer reads no
\* memory and writes no registers.
C13_AsStated ==
  FailedInspect
    => /\ Done /\ retcode # 0 /\ exit_status # EXIT_SUCCESS
       /\ tst \in {"zombie", "reaped"}
       /\ lastpass.ops = {"getregs"}

\* ---------------------------------------------------------------- C14

\* C14: when waitpid() itself fails, at any step and also at the first,
\* the session ends as a wait failure: the return code is not 0 and the
\* error text carries "Error: waitpid failed."; it is never reported as a
\* success.
C14_AsStated ==
  (Done /\ cause = "waitfail")
    => /\ retcode # 0 /\ exit_status # EXIT_SUCCESS
       /\ error_list = ErrorListInit \o MsgWaitFailed

\* ---------------------------------------------------------------- C15

\* The tracer's first waitpid() returns a status and the pass at step 0
\* runs.
FirstWait ==
  /\ pc = "wait" /\ pending # NoStatus /\ nfaults' = nfaults
  /\ trace_number = 0
  /\ pc' = "done" \/ trace_number' # trace_number

\* C15: at step 0, when the tracee has not exited and the status is not a
\* stop by SIGSTOP, the tracer kills the tracee, adds the text of the
\* unexpected status and returns the code of it, and inspects no syscall;
\* when the status is a stop by SIGSTOP nothing is inspected at step 0 and
\* the next step is step 1, the first that is inspected.
C15_InitialStop ==
  [][(FirstWait /\ ~WIFEXITED(pending))
       => /\ lastpass'.ops = {} /\ observed' = observed
          /\ file_names_list' = file_names_list
          /\ IF pending = W_STOPCODE(SIGSTOP)
             THEN /\ pc' = "wait" /\ trace_number' = 1
                  /\ trace_number' % 2 = 1
                  /\ error_list' = error_list /\ retcode' = retcode
                  /\ tst' \notin {"zombie", "reaped"}
             ELSE /\ pc' = "done" /\ trace_number' = 0
                  /\ tst' \in {"zombie", "reaped"}
                  /\ error_list' = error_list \o MsgWaitStatus
                  /\ retcode' = RetWaitStatus
                  /\ exit_status' = ExitStatus(RetWaitStatus)]_vars

\* A session that ended at step 0 on a stop by another signal than
\* SIGSTOP, with the tracee killed.
C15_Witness ==
  /\ Done /\ trace_number = 0 /\ status = W_STOPCODE(SIGWINCH)
  /\ retcode = RetWaitStatus /\ tst \in {"zombie", "reaped"}
  /\ error_list = ErrorListInit \o MsgWaitStatus

\* ---------------------------------------------------------------- C16

\* C16: after the initial stop the steps alternate ENTRY, EXIT, ENTRY, ...:
\* every pass in which the tracer inspects (odd trace_number) meets the
\* tracee in a syscall-entry stop, a syscall-exit stop is resumed without
\* inspection, and no syscall-entry stop goes by without inspection.
C16_AsStated ==
  /\ "getregs" \in lastpass.ops <=> lastpass.at = "entry"
  /\ lastpass.at = "exitstop" => lastpass.ops = {}

\* ---------------------------------------------------------------- C17

\* The number of words PTRACE_PEEKDATA can read one after the other from
\* address src on: none from a tracee that is not stopped under trace or
\* from an address that is not mapped, else those that lie whole in memory.
ReadableWords(m, alive, src) ==
  IF ~alive \/ src < 1 \/ src + WordSize - 1 > Len(m) THEN 0
  ELSE (Len(m) - src + 1) \div WordSize

\* The bytes of r before its first NUL, all of r when it has none.
BeforeNul(r) ==
  LET nuls == {i \in 1..Len(r) : r[i] = NUL}
  IN IF nuls = {} THEN r
     ELSE SubSeq(r, 1, (CHOOSE i \in nuls : \A j \in nuls : i <= j) - 1)

\* What the function is to copy: nothing for NULL, else the bytes before
\* the first NUL in the words that can be read, PATH_MAX - 1 of them at
\* most.
ExpectedCopy(m, alive, src) ==
  IF src = 0 THEN << >>
  ELSE LET k == ReadableWords(m, alive, src)
           b == BeforeNul(SubSeq(m, src, src + WordSize * k - 1))
       IN SubSeq(b, 1, Min(Len(b), PATH_MAX - 1))

C18_AsStated ==
  lastpass.ops # {}
    => WIFSTOPPED(status) /\ lastpass.at \in PtraceStops

\* ---------------------------------------------------------------- C19

\* A pass of the tracer at an odd step that meets the tracee in a
\* syscall-entry stop.
EntryStep ==
  /\ pc = "wait" /\ pending # NoStatus /\ nfaults' = nfaults
  /\ trace_number % 2 = 1 /\ tst = "entry" /\ traced
  /\ pc' = "done" \/ trace_number' # trace_number

\* C19: at an ENTRY step the tracer takes the syscall for a file-access
\* call exactly when its number is 2 (open), 4 (stat), 6 (lstat), 21
\* (access) or 257 (openat); it takes the path's address from rsi for
\* openat and from rdi for the other four; for every other number it reads
\* nothing from the tracee's memory, collects nothing and resumes the
\* tracee unchanged.
C19_Classification ==
  [][EntryStep
       => LET nr == regs.orig_rax
              ptr == IF nr = 257 THEN regs.rsi ELSE regs.rdi
              path == ExpectedCopy(mem, TRUE, ptr)
          IN IF nr \in {2, 4, 6, 21, 257}
             THEN /\ "peekdata" \in lastpass'.ops <=> ptr # 0
                  /\ strncmp_eq(path, ErrorMarker)
                       => error_list' = error_list \o path
                  /\ (strstr(path, TargetName) /\ ~strncmp_eq(path, ErrorMarker))
                       => observed' = Append(observed, path)
                  /\ ~strstr(path, TargetName) => observed' = observed
             ELSE /\ lastpass'.ops = {"getregs"}
                  /\ observed' = observed /\ recorded' = recorded
                  /\ file_names_list' = file_names_list
                  /\ error_list' = error_list
                  /\ regs' = regs /\ mem' = mem
                  /\ pc' = "wait" /\ tst' = "kernel"]_vars

\* After the ENTRY step of an openat(): the path at rsi was read and
\* collected, not what rdi holds.
C19_Witness ==
  /\ tst = "kernel" /\ cur.nr = SYSCALL_OPENAT
  /\ lastpass.at = "entry" /\ "peekdata" \in lastpass.ops
  /\ observed # << >> /\ LastExtracted = StringAt(mem, cur.ptr)
  /\ LastExtracted # StringAt(mem, regs.rdi)
  /\ StringAt(mem, regs.rdi) # << >>

\* ---------------------------------------------------------------- C20

\* A pass of the tracer after a waitpid() that returned a status.
TracerPass ==
  /\ pc = "wait" /\ pending # NoStatus /\ nfaults' = nfaults
  /\ pc' = "done" \/ trace_number' # trace_number

\* C20: the tracer writes the tracee's registers only at the ENTRY step of
\* a file-access call whose path holds "my.cnf" and only when
\* PGOPTIONFILES_READ is 0, and then it changes the path register of that
\* call and no other; in every other pass at a syscall stop it leaves the
\* registers as they are, and it never changes the tracee's memory.
C20_AsStated ==
  [][TracerPass
       => LET path == ExpectedCopy(mem, TRUE, PathReg(regs))
              writes == "setregs" \in lastpass'.ops
          IN /\ writes
                 => /\ tst = "entry" /\ READ = 0
                    /\ regs.orig_rax \in FileSyscalls
                    /\ strstr(path, TargetName)
                    /\ ~strncmp_eq(path, ErrorMarker)
                    /\ regs'.orig_rax = regs.orig_rax
                    /\ regs.orig_rax = SYSCALL_OPENAT => regs'.rdi = regs.rdi
                    /\ regs.orig_rax # SYSCALL_OPENAT => regs'.rsi = regs.rsi
             /\ (~writes /\ tst = "entry") => regs' = regs
             /\ tst \in {"entry", "exitstop"} => mem' \in {mem, << >>}]_vars

\* ---------------------------------------------------------------- C21

\* C21: for a path of any length in the tracee's memory, every index the
\* tracer writes in file_name (the leading delimiter, the copied bytes,
\* their NUL, the trailing delimiter and its NUL) lies within the
\* PATH_MAX bytes of the array, and what is appended to error_list never
\* runs past the end of that array.
C21_AsStated ==
  /\ written.file_name < PATH_MAX
  /\ written.error_list < ERROR_LIST_SIZE

====
